---- MODULE Spec2Model ----
(***************************************************************************)
(* pyproject-pip: the dependency list editor (modify_dependencies), the    *)
(* formatting-preserving serializer (write_pyproject) and the two file     *)
(* operations built on them (modify_pyproject_toml, modify_requirements).  *)
(*                                                                         *)
(* Text is modelled as TLA+ strings, read character by character with Len, *)
(* SubSeq and \o, so that every split, strip, index and substring test of  *)
(* the Python source is computed the way the source computes it.           *)
(***************************************************************************)
EXTENDS Integers, Sequences, FiniteSets, TLC

VARIABLES
    pyproject,      \* pyproject.toml on disk: [exists, text]
    requirements,   \* requirements.txt on disk: [exists, text]
    data,           \* the manifest document handed to the serializer
    deps,           \* the dependency collection held by the list editor
    calls,          \* the most recent calls (at most two), oldest first
    ncalls          \* number of calls made so far

vars == <<pyproject, requirements, data, deps, calls, ncalls>>

(***************************************************************************)
(* Bounds of the model.                                                    *)
(***************************************************************************)
MaxCalls == 3

(***************************************************************************)
(* Python str primitives.                                                  *)
(***************************************************************************)
Char(s, i) == SubSeq(s, i, i)

\* s[i:] with a 1-based i
From(s, i) == SubSeq(s, i, Len(s))

\* 1-based position of the first occurrence of sub in s at or after i; 0 if none
FindFrom(s, sub, i) ==
    LET hits == {k \in i..(Len(s) - Len(sub) + 1) : SubSeq(s, k, k + Len(sub) - 1) = sub}
    IN IF hits = {} THEN 0 ELSE CHOOSE k \in hits : \A j \in hits : k <= j

\* sub in s
Contains(s, sub) == FindFrom(s, sub, 1) # 0

\* s.split(sep)
RECURSIVE Split(_, _)
Split(s, sep) ==
    LET p == FindFrom(s, sep, 1) IN
    IF p = 0 THEN <<s>>
    ELSE <<SubSeq(s, 1, p - 1)>> \o Split(From(s, p + Len(sep)), sep)

IsSpace(c) == c \in {" ", "\t", "\n", "\r"}

RECURSIVE LStrip(_)
LStrip(s) == IF Len(s) > 0 /\ IsSpace(Char(s, 1)) THEN LStrip(From(s, 2)) ELSE s

\* s.rstrip()
RECURSIVE RStrip(_)
RStrip(s) ==
    IF Len(s) > 0 /\ IsSpace(Char(s, Len(s))) THEN RStrip(SubSeq(s, 1, Len(s) - 1)) ELSE s

\* s.strip()
Strip(s) == LStrip(RStrip(s))

StartsWith(s, p) == Len(s) >= Len(p) /\ SubSeq(s, 1, Len(p)) = p

EndsWith(s, p) == Len(s) >= Len(p) /\ SubSeq(s, Len(s) - Len(p) + 1, Len(s)) = p

UpperCase == "ABCDEFGHIJKLMNOPQRSTUVWXYZ"
LowerCase == "abcdefghijklmnopqrstuvwxyz"

\* the lower-case letter of each upper-case letter
LowerOf ==
    [c \in {Char(UpperCase, i) : i \in 1..Len(UpperCase)} |->
        Char(LowerCase, CHOOSE i \in 1..Len(UpperCase) : Char(UpperCase, i) = c)]

LowerChar(c) == IF c \in DOMAIN LowerOf THEN LowerOf[c] ELSE c

\* s.lower()
RECURSIVE Lower(_)
Lower(s) == IF Len(s) = 0 THEN "" ELSE LowerChar(Char(s, 1)) \o Lower(From(s, 2))

\* the printable ASCII characters in code point order, from the space (code 32);
\* the backquote (code 96) has no string literal and is left out, which keeps
\* the order of all the others
Ascii ==
    " !\"#$%&'()*+,-./0123456789:;<=>?@ABCDEFGHIJKLMNOPQRSTUVWXYZ[\\]^_abcdefghijklmnopqrstuvwxyz{|}~"

RankOf ==
    [c \in {Char(Ascii, i) : i \in 1..Len(Ascii)} |->
        CHOOSE i \in 1..Len(Ascii) : Char(Ascii, i) = c]

\* the rank of c by code point; control characters rank below the space
Ord(c) == IF c \in DOMAIN RankOf THEN RankOf[c] ELSE 0

\* a < b on str: lexicographic by code point
RECURSIVE StrLess(_, _)
StrLess(a, b) ==
    IF Len(b) = 0 THEN FALSE
    ELSE IF Len(a) = 0 THEN TRUE
    ELSE IF Char(a, 1) = Char(b, 1) THEN StrLess(From(a, 2), From(b, 2))
    ELSE Ord(Char(a, 1)) < Ord(Char(b, 1))

(***************************************************************************)
(* The dependency list editor.                                             *)
(***************************************************************************)

\* base_name: the piece before the first "[", then the piece of that before "=="
\* the name cut at "==" alone
NameBeforeVersion(package_name) == Split(package_name, "==")[1]

base_name(package_name) == Split(Split(package_name, "[")[1], "==")[1]

\* the sort key of modify_dependencies: key=lambda x: x.lower()
SortKeyRaw(x) == x
SortKey(x) == Lower(x)

\* list.sort is stable: x goes after every element whose key is not greater
RECURSIVE InsertSorted(_, _)
InsertSorted(sorted, x) ==
    IF Len(sorted) = 0 THEN <<x>>
    ELSE IF StrLess(SortKey(x), SortKey(Head(sorted))) THEN <<x>> \o sorted
    ELSE <<Head(sorted)>> \o InsertSorted(Tail(sorted), x)

RECURSIVE SortDeps(_)
SortDeps(seq) ==
    IF Len(seq) = 0 THEN <<>>
    ELSE InsertSorted(SortDeps(SubSeq(seq, 1, Len(seq) - 1)), seq[Len(seq)])

\* the filter of modify_dependencies: an entry is dropped when its base name
\* equals the base name of the specifier as given
SameNameLoose(dep, package_version_str) ==
    Lower(base_name(dep)) = Lower(base_name(package_version_str))
SameSpecifier(dep, package_version_str) == dep = package_version_str
SameName(dep, package_version_str) == base_name(dep) = base_name(package_version_str)

modify_dependencies(dependencies, package_version_str, action) ==
    LET kept == SelectSeq(dependencies, LAMBDA dep : ~SameName(dep, package_version_str))
        stripped == [i \in 1..Len(kept) |-> Strip(kept[i])]
        appended == IF action = "install"
                    THEN Append(stripped, Strip(package_version_str))
                    ELSE stripped
    IN SortDeps(appended)

(***************************************************************************)
(* The formatting-preserving serializer.                                   *)
(***************************************************************************)

\* is_group: a "[", a "]" and no double quote in line[index("["):index("]")]
\* name = value: the value is computed once and then used under that name
With(value, body(_)) == CHOOSE result \in {body(name) : name \in {value}} : TRUE

is_group(line) ==
    /\ Contains(line, "[")
    /\ Contains(line, "]")
    /\ ~Contains(SubSeq(line, FindFrom(line, "[", 1), FindFrom(line, "]", 1) - 1), "\"")

\* dep.replace(c, "")
RECURSIVE Remove(_, _)
Remove(s, c) ==
    IF Len(s) = 0 THEN ""
    ELSE (IF Char(s, 1) = c THEN "" ELSE Char(s, 1)) \o Remove(From(s, 2), c)

\* fragments joined without the comma between them
RECURSIVE JoinExtrasPlain(_, _, _)
JoinExtrasPlain(fragments, dep, i) ==
    IF Contains(dep, "]") THEN [err |-> FALSE, dep |-> dep, i |-> i]
    ELSE IF i + 1 > Len(fragments) THEN [err |-> TRUE, dep |-> dep, i |-> i]
    ELSE JoinExtrasPlain(fragments, dep \o fragments[i + 1], i + 1)

\* the inner loop of process_dependencies: fragments are appended to dep until
\* it holds a "]"; deps[i+1] past the end raises IndexError
RECURSIVE JoinExtras(_, _, _)
JoinExtras(fragments, dep, i) ==
    IF Contains(dep, "]") THEN [err |-> FALSE, dep |-> dep, i |-> i]
    ELSE IF i + 1 > Len(fragments) THEN [err |-> TRUE, dep |-> dep, i |-> i]
    ELSE JoinExtras(fragments, dep \o "," \o fragments[i + 1], i + 1)

\* the loop "while i < len(deps)" of process_dependencies
RECURSIVE ReflowItems(_, _, _)
ReflowItems(fragments, i, lines) ==
    IF i > Len(fragments) THEN [err |-> FALSE, lines |-> lines]
    ELSE
        LET dep == fragments[i] IN
        IF Contains(dep, "[") /\ ~Contains(dep, "]") THEN
            LET j == JoinExtras(fragments, dep, i) IN
            IF j.err THEN [err |-> TRUE, lines |-> lines]
            ELSE ReflowItems(fragments, j.i + 1, Append(lines, j.dep \o ","))
        ELSE IF EndsWith(dep, "]") THEN
            ReflowItems(fragments, i + 1, lines \o <<Remove(dep, "]"), "]">>)
        ELSE
            LET new_dep == IF dep # fragments[Len(fragments)] THEN dep \o "," ELSE dep IN
            ReflowItems(fragments, i + 1,
                        IF Strip(new_dep) # "" THEN Append(lines, new_dep) ELSE lines)

\* the last loop of process_dependencies: every line trimmed, and indented by
\* two spaces unless it starts with "["
Indent(l) == IF ~StartsWith(Strip(l), "[") THEN "  " \o Strip(l) ELSE Strip(l)

\* process_dependencies(line, output_lines): [err, output_lines]
process_dependencies(line, output_lines) ==
    LET cut == Contains(line, "[") /\ (~Contains(line, "]") \/ ~Contains(line, ","))
        start == FindFrom(line, "[", 1)
        head == IF cut THEN <<SubSeq(line, 1, start)>> ELSE <<>>
        rest == IF cut THEN From(line, start + 1) ELSE line
    IN With(ReflowItems(Split(rest, ","), 1, head),
            LAMBDA r :
                [err |-> r.err,
                 output_lines |->
                     IF r.err THEN output_lines
                     ELSE output_lines \o [k \in 1..Len(r.lines) |-> Indent(r.lines[k])]])

\* the scanner's state before the first line
ScanStart ==
    [inside_dependencies |-> FALSE, inside_optional_dependencies |-> FALSE,
     output_lines |-> <<>>, err |-> FALSE, exception |-> ""]

\* a line that opens a dependency array (write_pyproject, line 287)
OpensArray(line, inside_optional_dependencies) ==
    /\ Contains(line, "dependencies")
    /\ ~Contains(line, "optional-dependencies")
    /\ ~Contains(line, "extra-dependencies")
    /\ ~inside_optional_dependencies

\* the loop body with the test for the closing bracket moved after the reflow
ScanLineCloseLast(st, input_line) ==
    LET line == RStrip(input_line) IN
    IF st.err THEN st
    ELSE IF is_group(line) THEN
        [st EXCEPT !.inside_dependencies = FALSE,
                   !.inside_optional_dependencies = Contains(line, "optional-dependencies"),
                   !.output_lines = Append(@, line)]
    ELSE
        LET opt == st.inside_optional_dependencies
            closed == Contains(line, "]") /\ st.inside_dependencies /\ ~Contains(line, "[")
            inside1 == st.inside_dependencies
            r1 == IF opt THEN process_dependencies(line, st.output_lines)
                  ELSE [err |-> FALSE, output_lines |-> st.output_lines]
            opens == OpensArray(line, opt)
            p == FindFrom(line, "[", 1)
            inside2 == IF opens THEN TRUE ELSE inside1
            out2 == IF opens THEN Append(r1.output_lines, SubSeq(line, 1, p))
                    ELSE r1.output_lines
            line2 == IF opens THEN From(line, p + 1) ELSE line
            r3 == IF inside2 /\ ~opt THEN process_dependencies(line2, out2)
                  ELSE IF ~inside2 /\ ~opt THEN [err |-> FALSE, output_lines |-> Append(out2, line2)]
                  ELSE [err |-> FALSE, output_lines |-> out2]
        IN IF r1.err THEN [st EXCEPT !.inside_dependencies = inside1, !.err = TRUE,
                                     !.exception = "IndexError"]
           ELSE IF opens /\ p = 0 THEN [st EXCEPT !.inside_dependencies = TRUE, !.err = TRUE,
                                                 !.exception = "ValueError"]
           ELSE IF r3.err THEN [st EXCEPT !.inside_dependencies = inside2, !.err = TRUE,
                                          !.exception = "IndexError"]
           ELSE [st EXCEPT !.inside_dependencies = IF closed THEN FALSE ELSE inside2,
                           !.output_lines = r3.output_lines]

\* the body of the loop over input_lines in write_pyproject
ScanLine(st, input_line) ==
    LET line == RStrip(input_line) IN
    IF st.err THEN st
    ELSE IF is_group(line) THEN
        [st EXCEPT !.inside_dependencies = FALSE,
                   !.inside_optional_dependencies = Contains(line, "optional-dependencies"),
                   !.output_lines = Append(@, line)]
    ELSE
        LET opt == st.inside_optional_dependencies
            closed == Contains(line, "]") /\ st.inside_dependencies /\ ~Contains(line, "[")
            inside1 == IF closed THEN FALSE ELSE st.inside_dependencies
            r1 == IF opt THEN process_dependencies(line, st.output_lines)
                  ELSE [err |-> FALSE, output_lines |-> st.output_lines]
            opens == OpensArray(line, opt)
            p == FindFrom(line, "[", 1)
            inside2 == IF opens THEN TRUE ELSE inside1
            out2 == IF opens THEN Append(r1.output_lines, SubSeq(line, 1, p))
                    ELSE r1.output_lines
            line2 == IF opens THEN From(line, p + 1) ELSE line
            r3 == IF inside2 /\ ~opt THEN process_dependencies(line2, out2)
                  ELSE IF ~inside2 /\ ~opt THEN [err |-> FALSE, output_lines |-> Append(out2, line2)]
                  ELSE [err |-> FALSE, output_lines |-> out2]
        IN IF r1.err THEN [st EXCEPT !.inside_dependencies = inside1, !.err = TRUE,
                                     !.exception = "IndexError"]
           ELSE IF opens /\ p = 0 THEN [st EXCEPT !.inside_dependencies = TRUE, !.err = TRUE,
                                                 !.exception = "ValueError"]
           ELSE IF r3.err THEN [st EXCEPT !.inside_dependencies = inside2, !.err = TRUE,
                                          !.exception = "IndexError"]
           ELSE [st EXCEPT !.inside_dependencies = inside2,
                           !.output_lines = r3.output_lines]

RECURSIVE Scan(_, _)
Scan(st, input_lines) ==
    IF Len(input_lines) = 0 THEN st
    ELSE With(ScanLine(st, Head(input_lines)), LAMBDA next : Scan(next, Tail(input_lines)))

\* str.splitlines on "\n", "\r\n" and "\r"
RECURSIVE SplitLines(_)
SplitLines(text) ==
    IF Len(text) = 0 THEN <<>>
    ELSE
        LET n == FindFrom(text, "\n", 1)
            r == FindFrom(text, "\r", 1)
            p == IF r # 0 /\ (n = 0 \/ r < n) THEN r ELSE n
            w == IF p # 0 /\ p = r /\ n = r + 1 THEN 2 ELSE 1
        IN IF p = 0 THEN <<text>>
           ELSE <<SubSeq(text, 1, p - 1)>> \o SplitLines(From(text, p + w))

\* the loop that writes output_lines: the text written to the file
RECURSIVE WriteLines(_, _)
WriteLines(output_lines, written) ==
    IF Len(output_lines) = 0 THEN written
    ELSE
        LET line == Head(output_lines)
            gap == IF is_group(line) /\ Len(written) > 0
                      /\ ~EndsWith(written[Len(written)], "\n")
                   THEN <<"\n">> ELSE <<>>
        IN WriteLines(Tail(output_lines), written \o gap \o <<line \o "\n">>)

RECURSIVE Concat(_)
Concat(chunks) == IF Len(chunks) = 0 THEN "" ELSE Head(chunks) \o Concat(Tail(chunks))

\* Path.read_text: text mode with universal newlines, "\r\n" and "\r" read as "\n"
RECURSIVE ReadText(_)
ReadText(bytes) ==
    LET r == FindFrom(bytes, "\r", 1) IN
    IF r = 0 THEN bytes
    ELSE SubSeq(bytes, 1, r - 1) \o "\n"
         \o ReadText(From(bytes, IF Char(bytes, r + 1) = "\n" THEN r + 2 ELSE r + 1))

(***************************************************************************)
(* The manifest document (tomlkit): a sequence of items, each with the     *)
(* table it sits in, its key, its value and the text lines it is rendered  *)
(* as.  Items read from a file keep the file's text; an array assigned a   *)
(* Python list is rendered on one line.                                    *)
(***************************************************************************)
Quote(s) == "\"" \o s \o "\""

RECURSIVE JoinWith(_, _)
JoinWith(strs, sep) ==
    IF Len(strs) = 0 THEN ""
    ELSE IF Len(strs) = 1 THEN strs[1]
    ELSE strs[1] \o sep \o JoinWith(Tail(strs), sep)

Quoted(items) == [i \in 1..Len(items) |-> Quote(items[i])]

Header(name) ==
    [kind |-> "table", table |-> name, key |-> "", value |-> <<>>,
     raw |-> <<"[" \o name \o "]">>]

StringItem(table, key, v) ==
    [kind |-> "string", table |-> table, key |-> key, value |-> <<v>>,
     raw |-> <<key \o " = " \o Quote(v)>>]

Trivia(table, line) ==
    [kind |-> "trivia", table |-> table, key |-> "", value |-> <<>>, raw |-> <<line>>]

\* an array as tomlkit renders a list: key = ["a", "b"]
InlineArray(key, items) == <<key \o " = [" \o JoinWith(Quoted(items), ", ") \o "]">>

\* an array kept as written in the file, one item per line, with or without
\* a comma after the last item
WrappedArray(key, items, lastComma) ==
    <<key \o " = [">>
    \o [i \in 1..Len(items) |->
          "    " \o Quote(items[i]) \o (IF i < Len(items) \/ lastComma THEN "," ELSE "")]
    \o <<"]">>

Layouts == {"inline", "wrapped", "wrapped-comma"}

ArrayItem(table, key, items, layout) ==
    [kind |-> "array", table |-> table, key |-> key, value |-> items,
     raw |-> IF layout = "inline" THEN InlineArray(key, items)
             ELSE WrappedArray(key, items, layout = "wrapped-comma")]

RECURSIVE RawLines(_)
RawLines(doc) == IF Len(doc) = 0 THEN <<>> ELSE Head(doc).raw \o RawLines(Tail(doc))

\* tomlkit.dumps: the items' text, line by line
Dumps(doc) ==
    With(RawLines(doc), LAMBDA lines : Concat([i \in 1..Len(lines) |-> lines[i] \o "\n"]))

\* the arrays write_pyproject is to lay out: project.dependencies, every group
\* of project.optional-dependencies, an environment's dependencies
IsDependencyArray(item) ==
    /\ item.kind = "array"
    /\ \/ item.table = "project" /\ item.key = "dependencies"
       \/ item.table = "project.optional-dependencies"
       \/ StartsWith(item.table, "tool.hatch.envs.") /\ item.key = "dependencies"

\* an except clause for ValueError alone
ValueErrorOnly(exception) == exception = "ValueError"

\* "except Exception": ValueError (str.index), IndexError (deps[i+1]) and
\* PermissionError (open) are all subclasses of Exception
SubclassOfException(exception) == exception \in {"ValueError", "IndexError", "PermissionError"}

\* write_pyproject(data): [raised, exception, propagated, written, text];
\* raised when an exception was raised inside the try block, propagated when
\* an exception reached the caller, written when the file was opened for
\* writing, text what the file holds then.  Path.open("w") raises
\* PermissionError on a file that is not writable, in the try block and again
\* in the except clause.
write_pyproject(doc, original_data, writable) ==
    LET toml_str == Dumps(doc)
        Outcome(exception) ==
            IF exception = "" THEN <<>>
            ELSE IF ~SubclassOfException(exception) THEN
                [raised |-> TRUE, exception |-> exception, propagated |-> TRUE,
                 written |-> writable, text |-> ""]
            ELSE IF ~writable THEN
                [raised |-> TRUE, exception |-> exception, propagated |-> TRUE,
                 written |-> FALSE, text |-> original_data]
            ELSE
                [raised |-> TRUE, exception |-> exception, propagated |-> FALSE,
                 written |-> TRUE, text |-> original_data]
    IN IF ~writable THEN Outcome("PermissionError")
       ELSE With(Scan(ScanStart, SplitLines(toml_str)),
                 LAMBDA st :
                     IF st.err THEN Outcome(st.exception)
                     ELSE [raised |-> FALSE, exception |-> "", propagated |-> FALSE,
                           written |-> TRUE,
                           text |-> Concat(WriteLines(st.output_lines, <<>>))])

(***************************************************************************)
(* tomlkit.parse, for the documents of the model: table headers, blank and *)
(* comment lines, key = "string", key = bare value, and arrays of strings  *)
(* on one line or wrapped over several.  Anything else is a parse error,   *)
(* as are text after a value and a line break inside a string.             *)
(***************************************************************************)
CharsOf(s) == {Char(s, i) : i \in 1..Len(s)}

KeyChars == CharsOf(UpperCase \o LowerCase \o "0123456789-_")
TableChars == KeyChars \cup {"."}
ValueChars == KeyChars \cup {".", "+"}

AllIn(s, chars) == Len(s) > 0 /\ \A i \in 1..Len(s) : Char(s, i) \in chars

\* s without its whitespace
RECURSIVE Squeeze(_)
Squeeze(s) ==
    IF Len(s) = 0 THEN ""
    ELSE (IF IsSpace(Char(s, 1)) THEN "" ELSE Char(s, 1)) \o Squeeze(From(s, 2))

\* the text of an array value is complete once a "]" stands outside its strings
ArrayComplete(text) ==
    LET pieces == Split(text, "\"") IN
    Len(pieces) % 2 = 1 /\ Contains(pieces[Len(pieces)], "]")

\* the array "[ ... ]" in text: [ok, items]
ParseArray(text) ==
    LET pieces == Split(From(text, 2), "\"")
        n == Len(pieces)
        count == (n - 1) \div 2
        items == [k \in 1..count |-> pieces[2 * k]]
    IN [ok |-> /\ n % 2 = 1
               /\ IF n = 1 THEN Squeeze(pieces[1]) = "]"
                  ELSE /\ Squeeze(pieces[1]) = ""
                       /\ \A k \in 1..(count - 1) : Squeeze(pieces[2 * k + 1]) = ","
                       /\ Squeeze(pieces[n]) \in {"]", ",]"}
                       /\ \A k \in 1..count : ~Contains(items[k], "\n"),
        items |-> items]

ParseFailed == [ok |-> FALSE, doc |-> <<>>]

\* pending: <<>>, or <<[key, raw, text]>> while an array is open over several lines
RECURSIVE ParseLines(_, _, _, _, _)
ParseLines(lines, i, table, doc, pending) ==
    IF i > Len(lines) THEN
        IF pending = <<>> THEN [ok |-> TRUE, doc |-> doc] ELSE ParseFailed
    ELSE
        LET L == lines[i]
            S == Strip(L)
        IN
        IF pending # <<>> THEN
            LET text == pending[1].text \o "\n" \o L
                raw == Append(pending[1].raw, L)
            IN IF ~ArrayComplete(text) THEN
                   ParseLines(lines, i + 1, table, doc,
                              <<[key |-> pending[1].key, raw |-> raw, text |-> text]>>)
               ELSE IF ~ParseArray(text).ok THEN ParseFailed
               ELSE ParseLines(lines, i + 1, table,
                               Append(doc, [kind |-> "array", table |-> table,
                                            key |-> pending[1].key,
                                            value |-> ParseArray(text).items, raw |-> raw]),
                               <<>>)
        ELSE IF S = "" \/ StartsWith(S, "#") THEN
            ParseLines(lines, i + 1, table, Append(doc, Trivia(table, L)), <<>>)
        ELSE IF StartsWith(S, "[") THEN
            LET name == SubSeq(S, 2, Len(S) - 1) IN
            IF EndsWith(S, "]") /\ AllIn(name, TableChars) THEN
                ParseLines(lines, i + 1, name,
                           Append(doc, [kind |-> "table", table |-> name, key |-> "",
                                        value |-> <<>>, raw |-> <<L>>]),
                           <<>>)
            ELSE ParseFailed
        ELSE
            LET p == FindFrom(S, "=", 1)
                key == Strip(SubSeq(S, 1, p - 1))
                V == Strip(From(S, p + 1))
                item(kind, value) ==
                    [kind |-> kind, table |-> table, key |-> key, value |-> value,
                     raw |-> <<L>>]
            IN
            IF p = 0 \/ ~AllIn(key, KeyChars) THEN ParseFailed
            ELSE IF StartsWith(V, "\"") THEN
                LET q == Split(V, "\"") IN
                IF Len(q) = 3 /\ q[3] = "" THEN
                    ParseLines(lines, i + 1, table, Append(doc, item("string", <<q[2]>>)), <<>>)
                ELSE ParseFailed
            ELSE IF StartsWith(V, "[") THEN
                IF ~ArrayComplete(V) THEN
                    ParseLines(lines, i + 1, table, doc,
                               <<[key |-> key, raw |-> <<L>>, text |-> V]>>)
                ELSE IF ~ParseArray(V).ok THEN ParseFailed
                ELSE ParseLines(lines, i + 1, table,
                                Append(doc, item("array", ParseArray(V).items)), <<>>)
            ELSE IF AllIn(V, ValueChars) THEN
                ParseLines(lines, i + 1, table, Append(doc, item("scalar", <<V>>)), <<>>)
            ELSE ParseFailed

\* tomlkit.parse(content): [ok, doc]
Parse(content) == ParseLines(SplitLines(content), 1, "", <<>>, <<>>)

\* a file: whether it exists, its bytes, and whether open("w") is permitted
NoFile == [exists |-> FALSE, text |-> "", writable |-> TRUE]

File(text) == [exists |-> TRUE, text |-> text, writable |-> TRUE]

ReadOnlyFile(text) == [exists |-> TRUE, text |-> text, writable |-> FALSE]

(***************************************************************************)
(* modify_requirements.                                                    *)
(***************************************************************************)

\* get_requirements_packages(as_set=False): the trimmed lines that are neither
\* empty nor comments
get_requirements_packages(content) ==
    LET lines == SplitLines(content)
        trimmed == [i \in 1..Len(lines) |-> Strip(lines[i])]
    IN SelectSeq(trimmed, LAMBDA line : line # "" /\ ~StartsWith(line, "#"))

\* the base name of a line of requirements.txt, as modify_requirements takes it
LineBaseName(line) == Split(Split(line, "[")[1], "==")[1]

\* optional arguments: <<>> is None, <<v>> is the value v
None == <<>>
Some(v) == <<v>>

\* modify_requirements: [raised, text]
modify_requirements(file, package_name, package_version, action) ==
    IF ~file.exists \/ ~file.writable THEN [raised |-> TRUE, text |-> file.text]
    ELSE
        LET lines == get_requirements_packages(ReadText(file.text))
            parts == Split(package_name, "[")
            base_package_name == parts[1]
            extras == Tail(parts)
            extras_str == IF extras # <<>> THEN "[" \o JoinWith(extras, ",") ELSE ""
            found == \E i \in 1..Len(lines) : base_package_name = LineBaseName(lines[i])
            new_line == IF package_version # None
                        THEN base_package_name \o extras_str \o "==" \o package_version[1]
                        ELSE base_package_name \o extras_str
            result ==
                IF action = "install" THEN
                    IF found THEN
                        [i \in 1..Len(lines) |->
                            IF base_package_name # LineBaseName(lines[i]) THEN lines[i]
                            ELSE new_line]
                    ELSE Append(lines, new_line)
                ELSE IF action = "uninstall" THEN
                    SelectSeq(lines, LAMBDA line : base_package_name # LineBaseName(line))
                ELSE lines
        IN [raised |-> FALSE,
            text |-> Concat([i \in 1..Len(result) |-> result[i] \o "\n"])]

\* "for line in f": the lines of the text, each with its line end
RECURSIVE FileLines(_)
FileLines(text) ==
    LET n == FindFrom(text, "\n", 1) IN
    IF Len(text) = 0 THEN <<>>
    ELSE IF n = 0 THEN <<text>>
    ELSE <<SubSeq(text, 1, n)>> \o FileLines(From(text, n + 1))

\* is_package_in_requirements: [raised, result]
is_package_in_requirements(file, package_name) ==
    IF ~file.exists THEN [raised |-> TRUE, result |-> FALSE]
    ELSE LET lines == FileLines(ReadText(file.text)) IN
         [raised |-> FALSE,
          result |-> \E i \in 1..Len(lines) : base_name(package_name) = base_name(lines[i])]

(***************************************************************************)
(* modify_pyproject_toml.                                                  *)
(***************************************************************************)
IsValueItem(item) == item.kind \notin {"table", "trivia"}

\* the position of table.key in the document; 0 when it is not there
ItemIndex(doc, table, key) ==
    LET hits == {i \in 1..Len(doc) :
                    IsValueItem(doc[i]) /\ doc[i].table = table /\ doc[i].key = key}
    IN IF hits = {} THEN 0 ELSE CHOOSE i \in hits : \A j \in hits : i <= j

\* name in the document: a table of that name or one below it
HasTable(doc, name) ==
    \E i \in 1..Len(doc) :
        doc[i].table = name \/ StartsWith(doc[i].table, name \o ".")

\* table.get(key, [])
GetArray(doc, table, key) ==
    IF ItemIndex(doc, table, key) = 0 THEN <<>> ELSE doc[ItemIndex(doc, table, key)].value

LeadingSpace(line) == SubSeq(line, 1, Len(line) - Len(LStrip(line)))

\* the last item of the table, or of the tables below parent; 0 when none
LastIndexOf(doc, table) ==
    LET own == {i \in 1..Len(doc) : doc[i].table = table}
        dot == {k \in 1..Len(table) : Char(table, k) = "."}
        parent == IF dot = {} THEN table
                  ELSE SubSeq(table, 1, (CHOOSE k \in dot : \A j \in dot : j <= k) - 1)
        kin == {i \in 1..Len(doc) :
                   doc[i].table = parent \/ StartsWith(doc[i].table, parent \o ".")}
        last(S) == CHOOSE i \in S : \A j \in S : j <= i
    IN IF own # {} THEN last(own) ELSE IF kin # {} THEN last(kin) ELSE Len(doc)

\* table[key] = list: an array that is there is replaced by its one-line
\* rendering, keeping the indentation of its key; a new key goes to the end of
\* its table; a new table goes after the tables of its parent
SetArray(doc, table, key, items) ==
    LET idx == ItemIndex(doc, table, key)
        at == LastIndexOf(doc, table)
        new == [kind |-> "array", table |-> table, key |-> key, value |-> items,
                raw |-> InlineArray(key, items)]
        head == IF \E i \in 1..Len(doc) : doc[i].table = table THEN <<>>
                ELSE <<Header(table)>>
    IN IF idx # 0 THEN
           [doc EXCEPT ![idx] =
               [new EXCEPT !.raw = <<LeadingSpace(doc[idx].raw[1]) \o InlineArray(key, items)[1]>>]]
       ELSE SubSeq(doc, 1, at) \o head \o <<new>> \o SubSeq(doc, at + 1, Len(doc))

Truthy(opt) == opt # None /\ opt[1] # ""

EnvTableName(hatch_env) == "tool.hatch.envs." \o hatch_env[1]

\* lines 384-407: the document after the update of the collection
UpdateDocument(pyproject_doc, package_name, package_version, action, hatch_env, dependency_group) ==
    LET is_optional == dependency_group # "dependencies"
        is_hatch_env == Truthy(hatch_env) /\ HasTable(pyproject_doc, "tool.hatch")
        package_version_str ==
            package_name \o (IF Truthy(package_version) THEN "==" \o package_version[1] ELSE "")
        base_table == IF is_hatch_env THEN EnvTableName(hatch_env) ELSE "project"
        optional == "project.optional-dependencies"
        Store(edited) ==
            IF is_hatch_env /\ ~HasTable(edited, base_table)
            THEN edited \o <<Header(base_table)>>
            ELSE edited
    IN IF is_optional THEN
           With(SetArray(pyproject_doc, optional, dependency_group,
                         modify_dependencies(GetArray(pyproject_doc, optional, dependency_group),
                                             package_version_str, action)),
                LAMBDA one :
                    With(SetArray(one, optional, "all",
                                  modify_dependencies(GetArray(one, optional, "all"),
                                                      package_version_str, action)),
                         Store))
       ELSE With(SetArray(pyproject_doc, base_table, "dependencies",
                          modify_dependencies(GetArray(pyproject_doc, base_table, "dependencies"),
                                              package_version_str, action)),
                 Store)

\* modify_pyproject_toml: [raised, text]; raised when an exception reaches the
\* caller.  Without a file the prompts end in a TypeError (create_pyproject_toml
\* called without arguments), a FileNotFoundError or sys.exit(1).
modify_pyproject_toml(file, package_name, package_version, action, hatch_env, dependency_group) ==
    LET unchanged == [raised |-> TRUE, text |-> file.text]
        Update(content, parsed) ==
            IF ~parsed.ok THEN unchanged
            ELSE IF Truthy(hatch_env) /\ ~HasTable(parsed.doc, "tool.hatch") THEN unchanged
            ELSE IF ~HasTable(parsed.doc, "project") THEN unchanged
            ELSE IF Truthy(hatch_env) /\ ~HasTable(parsed.doc, "tool.hatch.envs") THEN unchanged
            ELSE With(UpdateDocument(parsed.doc, package_name, package_version, action,
                                     hatch_env, dependency_group),
                      LAMBDA stored :
                          With(write_pyproject(stored, content, file.writable),
                               LAMBDA w : [raised |-> w.propagated,
                                           text |-> IF w.written THEN w.text ELSE file.text]))
    IN IF ~file.exists THEN unchanged
       ELSE With(ReadText(file.text),
                 LAMBDA content : With(Parse(content), LAMBDA parsed : Update(content, parsed)))

(***************************************************************************)
(* is_package_in_pyproject.                                                *)
(***************************************************************************)
\* is_package_in_pyproject: [raised, exception, result]
is_package_in_pyproject(file, package_name, hatch_env) ==
    LET failed(exception) == [raised |-> TRUE, exception |-> exception, result |-> FALSE]
        any(dependencies) ==
            [raised |-> FALSE, exception |-> "",
             result |-> \E i \in 1..Len(dependencies) : Contains(dependencies[i], package_name)]
        Look(pyproject_doc) ==
            LET is_hatch_env == Truthy(hatch_env) /\ HasTable(pyproject_doc, "tool.hatch") IN
            IF Truthy(hatch_env) /\ ~is_hatch_env THEN failed("ValueError")
            ELSE IF is_hatch_env THEN
                IF ItemIndex(pyproject_doc, EnvTableName(hatch_env), "dependencies") = 0
                THEN failed("KeyError")
                ELSE any(GetArray(pyproject_doc, EnvTableName(hatch_env), "dependencies"))
            ELSE any(GetArray(pyproject_doc, "", "dependencies"))
    IN IF ~file.exists THEN failed("FileNotFoundError")
       ELSE With(Parse(ReadText(file.text)),
                 LAMBDA parsed : IF parsed.ok THEN Look(parsed.doc) ELSE failed("ParseError"))

(***************************************************************************)
(* Inputs of the list editor.                                              *)
(***************************************************************************)
Actions == {"install", "uninstall"}

\* specifiers handed to the editor: bare, pinned, with extras, differing in
\* letter case only, and with surrounding whitespace
Specifiers == {"a", "a==2", " a==3", "B", "b[x]==1", "c "}

\* collections found in a manifest: entries have pairwise distinct base names;
\* a hand-written list need not be sorted
InitialCollections ==
    { <<>>,
      <<"a==1">>,
      <<"a==1", "b">>,
      <<"b", "a==1">>,
      <<"B", "a==1", "b[y]">>,
      <<"b ", "a">> }


(***************************************************************************)
(* SpecUpdate: the list editor applied again and again to one collection.  *)
(***************************************************************************)
LastCall == calls[Len(calls)]

Remember(call) == IF Len(calls) = 0 THEN <<call>> ELSE <<calls[Len(calls)], call>>

InitUpdate ==
    /\ pyproject = NoFile
    /\ requirements = NoFile
    /\ data = <<>>
    /\ deps \in InitialCollections
    /\ calls = <<>>
    /\ ncalls = 0

Update(s, a) ==
    /\ ncalls < MaxCalls
    /\ deps' = modify_dependencies(deps, s, a)
    /\ calls' = Remember([op |-> "modify_dependencies", dependencies |-> deps,
                          package_version_str |-> s, action |-> a,
                          result |-> deps'])
    /\ ncalls' = ncalls + 1
    /\ UNCHANGED <<pyproject, requirements, data>>

NextUpdate == \E s \in Specifiers, a \in Actions : Update(s, a)

SpecUpdate == InitUpdate /\ [][NextUpdate]_vars

(***************************************************************************)
(* SpecWrite: write_pyproject applied to a document and a file on disk.    *)
(***************************************************************************)

\* dependency lists of a manifest: one entry, two entries, extras with a comma
DependencyLists == { <<"a==1">>, <<"a==1", "b">>, <<"a[x,y]==1", "b">> }

ProjectTable(d, layout, tail) ==
    <<Header("project"), StringItem("project", "name", "x"),
      ArrayItem("project", "dependencies", d, layout)>>
    \o (IF tail THEN <<StringItem("project", "version", "1")>> ELSE <<>>)

OptionalTable(g, layout) ==
    <<Trivia("project", ""), Header("project.optional-dependencies"),
      ArrayItem("project.optional-dependencies", "dev", g, layout)>>

EnvTable(e, layout) ==
    <<Trivia("", ""), Header("tool.hatch.envs.default"),
      ArrayItem("tool.hatch.envs.default", "dependencies", e, layout),
      StringItem("tool.hatch.envs.default", "python", "3.11")>>

\* documents whose rendering makes the scanner raise: a value that holds the
\* word "dependencies" on a line without "[" (ValueError), and a hand-wrapped
\* group with two entries on a line whose brackets are never closed (IndexError)
RaisingDocuments ==
    { <<Header("project"), StringItem("project", "description", "my dependencies"),
        ArrayItem("project", "dependencies", <<"a==1">>, "inline")>>,
      <<Header("project"), ArrayItem("project", "dependencies", <<"a==1">>, "inline"),
        Header("project.optional-dependencies"),
        [kind |-> "array", table |-> "project.optional-dependencies", key |-> "dev",
         value |-> <<"b[x", "c[y">>,
         raw |-> <<"dev = [", "    \"b[x\", \"c[y\",", "]">>]>> }

Documents ==
    { ProjectTable(d, l, tail) : d \in DependencyLists, l \in Layouts, tail \in BOOLEAN }
    \cup { ProjectTable(d, l, tail) \o OptionalTable(g, gl) :
             d \in {<<"a==1", "b">>}, l \in {"inline", "wrapped"}, tail \in BOOLEAN,
             g \in DependencyLists, gl \in Layouts }
    \cup { ProjectTable(d, l, FALSE) \o EnvTable(e, el) :
             d \in {<<"a==1", "b">>}, l \in {"inline", "wrapped"},
             e \in DependencyLists, el \in {"inline", "wrapped-comma"} }
    \cup RaisingDocuments


\* pyproject.toml before the call: absent, with "\n" line ends, with "\r\n",
\* and one that may not be opened for writing
InitialManifests ==
    { NoFile,
      File("[project]\nname = \"x\"\ndependencies = [\"a==1\"]\n"),
      File("[project]\r\nname = \"x\"\r\ndependencies = [\"a==1\"]\r\n"),
      ReadOnlyFile("[project]\nname = \"x\"\ndependencies = [\"a==1\"]\n") }

InitWrite ==
    /\ pyproject \in InitialManifests
    /\ requirements = NoFile
    /\ data \in Documents
    /\ deps = <<>>
    /\ calls = <<>>
    /\ ncalls = 0

\* write_pyproject on an existing file
WritePyproject ==
    /\ pyproject.exists
    /\ \E w \in {write_pyproject(data, ReadText(pyproject.text), pyproject.writable)} :
        /\ pyproject' = IF w.written THEN [pyproject EXCEPT !.text = w.text] ELSE pyproject
        /\ calls' = <<[op |-> "write_pyproject", before |-> pyproject,
                       raised |-> w.raised, exception |-> w.exception,
                       propagated |-> w.propagated]>>
    /\ UNCHANGED <<requirements, data, deps, ncalls>>

\* write_pyproject without a file: read_text raises FileNotFoundError before
\* the try block, and the caller gets it
WriteMissing ==
    /\ ~pyproject.exists
    /\ calls = <<>>
    /\ calls' = <<[op |-> "write_pyproject", before |-> pyproject,
                   raised |-> TRUE, exception |-> "FileNotFoundError",
                   propagated |-> TRUE]>>
    /\ UNCHANGED <<pyproject, requirements, data, deps, ncalls>>

NextWrite == WritePyproject \/ WriteMissing

SpecWrite == InitWrite /\ [][NextWrite]_vars

(***************************************************************************)
(* SpecFiles: modify_pyproject_toml and modify_requirements on the two     *)
(* files, as install_command and uninstall_command call them.              *)
(***************************************************************************)
MaxFileCalls == 2

ManifestFiles ==
    { NoFile,
      File("[project]\nname = \"x\"\ndependencies = [\n    \"alpha==1.0\",\n    \"beta==2.0\"\n]\n"),
      File("[project]\nname = \"x\"\ndependencies = [\"alpha==1.0\", \"beta==2.0\"]\nkeywords = [\"k\", \"l\"]\n"),
      File("[project]\ndependencies = [\n    \"alpha==1.0\",\n    \"beta==2.0\"\n]\n\n[project.optional-dependencies]\ndev = [\"p\", \"q\"]\n\n[tool.hatch.envs.default]\ndependencies = [\"t\"]\n") }

RequirementFiles ==
    { NoFile,
      File(""),
      File("alpha==1.0\n# pinned\n\nbeta[x]==2.0\n"),
      File("beta\nbeta==1.0\n") }

ManifestCall(name, version, action, hatch_env, dependency_group) ==
    [op |-> "modify_pyproject_toml", package_name |-> name, package_version |-> version,
     action |-> action, hatch_env |-> hatch_env, dependency_group |-> dependency_group]

RequirementsCall(name, version, action) ==
    [op |-> "modify_requirements", package_name |-> name, package_version |-> version,
     action |-> action]

ManifestCalls ==
    { ManifestCall("beta", None, "uninstall", None, "dependencies"),
      ManifestCall("gamma", Some("3.0"), "install", None, "dependencies"),
      ManifestCall("alpha", None, "install", None, "dependencies"),
      ManifestCall("p", None, "uninstall", None, "dev"),
      ManifestCall("t", Some("2"), "install", Some("default"), "dependencies"),
      ManifestCall("t", None, "install", Some("docs"), "dependencies") }

RequirementsCalls ==
    { RequirementsCall("beta", None, "uninstall"),
      RequirementsCall("gamma", Some("3.0"), "install"),
      RequirementsCall("beta[x,y]", None, "install"),
      RequirementsCall("alpha==1.0", Some("1.0"), "install") }

InitFiles ==
    /\ pyproject \in ManifestFiles
    /\ requirements \in RequirementFiles
    /\ data = <<>>
    /\ deps = <<>>
    /\ calls = <<>>
    /\ ncalls = 0

Files == [pyproject |-> pyproject, requirements |-> requirements]

ModifyPyprojectToml(call) ==
    /\ ncalls < MaxFileCalls
    /\ LET r == modify_pyproject_toml(pyproject, call.package_name, call.package_version,
                                      call.action, call.hatch_env, call.dependency_group)
       IN /\ pyproject' = [pyproject EXCEPT !.text = r.text]
          /\ calls' = Remember([op |-> call.op, call |-> call, before |-> Files,
                                raised |-> r.raised])
    /\ ncalls' = ncalls + 1
    /\ UNCHANGED <<requirements, data, deps>>

ModifyRequirements(call) ==
    /\ ncalls < MaxFileCalls
    /\ LET r == modify_requirements(requirements, call.package_name, call.package_version,
                                    call.action)
       IN /\ requirements' = [requirements EXCEPT !.text = r.text]
          /\ calls' = Remember([op |-> call.op, call |-> call, before |-> Files,
                                raised |-> r.raised])
    /\ ncalls' = ncalls + 1
    /\ UNCHANGED <<pyproject, data, deps>>

NextFiles ==
    \/ \E call \in ManifestCalls : ModifyPyprojectToml(call)
    \/ \E call \in RequirementsCalls : ModifyRequirements(call)

SpecFiles == InitFiles /\ [][NextFiles]_vars

(***************************************************************************)
(* Properties of the two file operations.                                  *)
(***************************************************************************)
SameCallTwice == Len(calls) = 2 /\ calls[1].call = calls[2].call

\* C9: calling modify_pyproject_toml or modify_requirements twice in
\* succession with identical arguments leaves both files as the first call
\* left them, and the second call succeeds whenever the first did
C9_Idempotent ==
    (SameCallTwice /\ ~calls[1].raised) =>
        /\ ~calls[2].raised
        /\ Files = calls[2].before

(***************************************************************************)
(* SpecCommands: install_command and uninstall_command of the command      *)
(* line, each package installed or uninstalled by pip without error.       *)
(***************************************************************************)
MaxCommands == 2

\* name_and_version(package_name, upgrade=False): [raised, name, version];
\* the caller unpacks two values, so a split in more than two parts raises
name_and_version(package_name) ==
    LET parts == Split(package_name, "==") IN
    IF ~Contains(package_name, "==") THEN
        [raised |-> FALSE, name |-> package_name, version |-> None]
    ELSE IF Len(parts) # 2 THEN [raised |-> TRUE, name |-> "", version |-> None]
    ELSE [raised |-> FALSE, name |-> parts[1], version |-> Some(parts[2])]

\* the package name that uninstall_command takes from its argument
UninstallName(package) == Split(Split(package, "==")[1], "[")[1]

\* pyproject.toml and requirements.txt that hold the same specifiers
MirroredFiles ==
    { [pyproject |-> File("[project]\nname = \"x\"\ndependencies = [\n    \"alpha==1.0\",\n    \"beta==2.0\"\n]\n"),
       requirements |-> File("alpha==1.0\nbeta==2.0\n")],
      [pyproject |-> File("[project]\nname = \"x\"\ndependencies = [\n    \"alpha\"\n]\n"),
       requirements |-> File("alpha\n")],
      [pyproject |-> File("[project]\ndependencies = [\n    \"beta[x]==2.0\"\n]\nname = \"x\"\n"),
       requirements |-> File("beta[x]==2.0\n")] }

InstallPackages == {"gamma", "gamma==3.0", "beta[x]", "alpha==2.0"}

UninstallPackages == {"beta", "alpha==1.0", "gamma"}

InitCommands ==
    /\ \E files \in MirroredFiles :
          /\ pyproject = files.pyproject
          /\ requirements = files.requirements
    /\ data = <<>>
    /\ deps = <<>>
    /\ calls = <<>>
    /\ ncalls = 0

\* install_command for one package, without --upgrade, --hatch-env or -g
InstallCommand(package) ==
    /\ ncalls < MaxCommands
    /\ \E nv \in {name_and_version(package)} :
       \E m \in {IF nv.raised THEN [raised |-> TRUE, text |-> pyproject.text]
                 ELSE modify_pyproject_toml(pyproject, package, nv.version, "install",
                                            None, "dependencies")} :
       \E r \in {IF m.raised THEN [raised |-> TRUE, text |-> requirements.text]
                 ELSE modify_requirements(requirements, nv.name, nv.version, "install")} :
          /\ pyproject' = [pyproject EXCEPT !.text = m.text]
          /\ requirements' = [requirements EXCEPT !.text = r.text]
          /\ calls' = Remember([op |-> "install_command", package |-> package,
                                before |-> Files, raised |-> r.raised])
    /\ ncalls' = ncalls + 1
    /\ UNCHANGED <<data, deps>>

\* uninstall_command for one package, without --hatch-env or -g
UninstallCommand(package) ==
    /\ ncalls < MaxCommands
    /\ \E r \in {modify_requirements(requirements, UninstallName(package), None, "uninstall")} :
       \E m \in {IF r.raised THEN [raised |-> TRUE, text |-> pyproject.text]
                 ELSE modify_pyproject_toml(pyproject, UninstallName(package), Some(""),
                                            "uninstall", None, "dependencies")} :
          /\ pyproject' = [pyproject EXCEPT !.text = m.text]
          /\ requirements' = [requirements EXCEPT !.text = r.text]
          /\ calls' = Remember([op |-> "uninstall_command", package |-> package,
                                before |-> Files, raised |-> m.raised])
    /\ ncalls' = ncalls + 1
    /\ UNCHANGED <<data, deps>>

NextCommands ==
    \/ \E package \in InstallPackages : InstallCommand(package)
    \/ \E package \in UninstallPackages : UninstallCommand(package)

SpecCommands == InitCommands /\ [][NextCommands]_vars

(***************************************************************************)
(* SpecNames: every place of the code that decides whether a specifier     *)
(* names the package of an entry, applied to one specifier and one entry.  *)
(***************************************************************************)
PackageNames ==
    { "pkg", "pkg==1.0", "pkg[extra]==1.0", "pkg[extra]", "pkg==1.0[extra]", "pkg[a==b]",
      "pk", "", "[extra]", "==1.0", "pkg=1", "Pkg" }

Entries ==
    { "pkg", "pkg==2.0", "pkg[other]==2.0", "pkg-tools", "pk", "Pkg==1.0", "pkg>=2.0",
      "other", "pkg==1.0[extra]" }

InitNames ==
    /\ pyproject = NoFile
    /\ requirements = NoFile
    /\ data = <<>>
    /\ deps \in {<<package, entry>> : package \in PackageNames, entry \in Entries}
    /\ calls = <<>>
    /\ ncalls = 0

Comparison(site, name, same) ==
    [op |-> "compare", site |-> site, package |-> deps[1], entry |-> deps[2],
     name |-> name, same |-> same]

Compared(site, name, same) ==
    /\ calls = <<>>
    /\ calls' = <<Comparison(site, name, same)>>
    /\ UNCHANGED <<pyproject, requirements, data, deps, ncalls>>

\* modify_dependencies, line 342
CompareInModifyDependencies ==
    Compared("modify_dependencies", base_name(deps[1]), SameName(deps[2], deps[1]))

\* modify_requirements, lines 200-202: the target is cut at "[" only
CompareInModifyRequirements ==
    Compared("modify_requirements", Split(deps[1], "[")[1],
             Split(deps[1], "[")[1] = LineBaseName(deps[2]))

\* is_package_in_requirements, line 434, on a file that holds the entry as a line
CompareInIsPackageInRequirements ==
    Compared("is_package_in_requirements", base_name(deps[1]),
             is_package_in_requirements(File(deps[2] \o "\n"), deps[1]).result)

\* is_package_in_pyproject, line 469: package_name in dep
CompareInIsPackageInPyproject ==
    Compared("is_package_in_pyproject", deps[1], Contains(deps[2], deps[1]))

\* uninstall_command, cli.py line 127, then modify_dependencies with that name
CompareInUninstallCommand ==
    Compared("uninstall_command", UninstallName(deps[1]),
             SameName(deps[2], UninstallName(deps[1])))

\* base_name itself
BaseName ==
    /\ calls = <<>>
    /\ calls' = <<[op |-> "base_name", package_name |-> deps[1],
                   result |-> base_name(deps[1])]>>
    /\ UNCHANGED <<pyproject, requirements, data, deps, ncalls>>

NextNames ==
    \/ CompareInModifyDependencies
    \/ CompareInModifyRequirements
    \/ CompareInIsPackageInRequirements
    \/ CompareInIsPackageInPyproject
    \/ CompareInUninstallCommand
    \/ BaseName

SpecNames == InitNames /\ [][NextNames]_vars

(***************************************************************************)
(* SpecReflow: process_dependencies applied to one line.                   *)
(***************************************************************************)
Seqs(S, n) == UNION {[1..k -> S] : k \in 1..n}

MaxEntries == 3

\* entries without extras, as they stand between the commas of a line
PlainEntries == {"dep1", " dep2", " dep3", "\"a==1\"", "dep1 "}

\* a line of plain entries whose last entry ends the array
PlainLine(entries) == [line |-> JoinWith(entries, ",") \o "]", entries |-> entries]

\* entries with extras that span several comma-delimited fragments, and
\* plain ones
ExtrasEntries == {"dep1[extra1,extra2]", " dep2[a,b,c]", " dep3"}

Spanning(entry) == Contains(entry, "[") /\ Contains(entry, ",")

ExtrasLine(entries) == [line |-> JoinWith(entries, ","), entries |-> entries]

ReflowInputs ==
    { PlainLine(entries) : entries \in Seqs(PlainEntries, MaxEntries) }
    \cup { ExtrasLine(entries) :
             entries \in {es \in Seqs(ExtrasEntries, MaxEntries) :
                             \E k \in 1..Len(es) : Spanning(es[k])} }
    \cup { [line |-> "dep1[extra1,extra2], dep2[extra3], dep3",
            entries |-> <<"dep1[extra1,extra2]">>] }

InitReflow ==
    /\ pyproject = NoFile
    /\ requirements = NoFile
    /\ data \in ReflowInputs
    /\ deps \in {<<>>, <<"dependencies = [">>}
    /\ calls = <<>>
    /\ ncalls = 0

ProcessDependencies ==
    /\ calls = <<>>
    /\ \E r \in {process_dependencies(data.line, deps)} :
          /\ deps' = r.output_lines
          /\ calls' = <<[op |-> "process_dependencies", line |-> data.line,
                         output_lines |-> deps, raised |-> r.err,
                         result |-> r.output_lines]>>
    /\ UNCHANGED <<pyproject, requirements, data, ncalls>>

NextReflow == ProcessDependencies

SpecReflow == InitReflow /\ [][NextReflow]_vars

(***************************************************************************)
(* SpecGroups: modify_pyproject_toml on the named optional groups of a     *)
(* manifest whose group "all" holds every package of the other groups.     *)
(***************************************************************************)
GroupManifests ==
    { File("[project]\nname = \"x\"\n\n[project.optional-dependencies]\ndev = [\n  \"p\"\n]\ntest = [\n  \"p\"\n]\nall = [\n  \"p\"\n]\n"),
      File("[project]\nname = \"x\"\n\n[project.optional-dependencies]\ndev = [\n  \"q==1\"\n]\nall = [\n  \"q==1\"\n]\n"),
      File("[project]\nname = \"x\"\ndependencies = [\n  \"a\"\n]\n") }

GroupCalls ==
    { ManifestCall(name, None, action, None, group) :
        name \in {"p", "r"}, action \in Actions, group \in {"dev", "test"} }

InitGroups ==
    /\ pyproject \in GroupManifests
    /\ requirements = NoFile
    /\ data = <<>>
    /\ deps = <<>>
    /\ calls = <<>>
    /\ ncalls = 0

NextGroups == \E call \in GroupCalls : ModifyPyprojectToml(call)

SpecGroups == InitGroups /\ [][NextGroups]_vars

(***************************************************************************)
(* SpecQueries: is_package_in_requirements asked of a requirements.txt.    *)
(***************************************************************************)
MaxLines == 2

RequirementLines == {"pkg", "pkg==1.0", "pkg[extra]", "other==2.0", "# pkg"}

\* files of one to MaxLines lines, the last one with or without its line end
QueryFiles ==
    { File(JoinWith(lines, "\n") \o end) :
        lines \in Seqs(RequirementLines, MaxLines), end \in {"", "\n"} }
    \cup {NoFile}

QueryNames == {"pkg", "pkg==2.0", "other", "pk"}

InitQueries ==
    /\ pyproject = NoFile
    /\ requirements \in QueryFiles
    /\ data = <<>>
    /\ deps = <<>>
    /\ calls = <<>>
    /\ ncalls = 0

IsPackageInRequirements(package_name) ==
    /\ calls = <<>>
    /\ \E r \in {is_package_in_requirements(requirements, package_name)} :
          calls' = <<[op |-> "is_package_in_requirements", package_name |-> package_name,
                      raised |-> r.raised, result |-> r.result]>>
    /\ UNCHANGED <<pyproject, requirements, data, deps, ncalls>>

NextQueries == \E package_name \in QueryNames : IsPackageInRequirements(package_name)

SpecQueries == InitQueries /\ [][NextQueries]_vars

(***************************************************************************)
(* SpecListed: is_package_in_pyproject asked of a pyproject.toml.          *)
(***************************************************************************)
ListedManifests ==
    { NoFile,
      File("[project]\nname = \"x\"\ndependencies = [\"alpha==1.0\", \"beta[x]\"]\n"),
      File("[project]\ndependencies = [\"alpha==1.0\"]\n\n[tool.hatch.envs.default]\ndependencies = [\"pytest-cov\", \"t==2\"]\n"),
      File("dependencies = [\"alpha==1.0\"]\n\n[project]\nname = \"x\"\n"),
      File("[project]\nname = \"x\"\n\n[tool.hatch.envs.docs]\npython = \"3.11\"\n") }

ListedNames == {"alpha", "alpha==1.0", "beta", "pytest", "pytest-cov", "t", "cov", "gamma"}

ListedEnvironments == {None, Some(""), Some("default"), Some("docs")}

\* deps holds the arguments of the call: <<package_name, hatch_env>>
InitListed ==
    /\ pyproject \in ListedManifests
    /\ requirements = NoFile
    /\ data = <<>>
    /\ deps \in {<<package_name, hatch_env>> :
                    package_name \in ListedNames, hatch_env \in ListedEnvironments}
    /\ calls = <<>>
    /\ ncalls = 0

IsPackageInPyproject ==
    /\ calls = <<>>
    /\ \E r \in {is_package_in_pyproject(pyproject, deps[1], deps[2])} :
          calls' = <<[op |-> "is_package_in_pyproject", package_name |-> deps[1],
                      hatch_env |-> deps[2], raised |-> r.raised,
                      exception |-> r.exception, result |-> r.result]>>
    /\ UNCHANGED <<pyproject, requirements, data, deps, ncalls>>

SpecListed == InitListed /\ [][IsPackageInPyproject]_vars

(***************************************************************************)
(* SpecRace: two processes, each in one call of modify_pyproject_toml on   *)
(* the same pyproject.toml.  A call touches the file four times: it reads  *)
(* it (lines 380-382), write_pyproject reads it again (264), opens it for  *)
(* writing, which empties it (266), and writes the lines, or after an      *)
(* exception the text read at 264 (300-310).  Nothing orders the steps of  *)
(* one process against those of the other.                                 *)
(***************************************************************************)
Procs == {1, 2}

RaceManifests ==
    { File("[project]\nname = \"x\"\ndependencies = [\n    \"alpha==1.0\",\n    \"beta==2.0\"\n]\n"),
      File("[project]\nname = \"x\"\ndependencies = [\n    \"alpha==1.0\",\n    \"pip-dependencies\",\n]\n\n[project.optional-dependencies]\ndev = [\n  \"q\"\n]\n") }

RaceCalls ==
    { ManifestCall("gamma", Some("3.0"), "install", None, "dependencies"),
      ManifestCall("alpha", None, "uninstall", None, "dependencies"),
      ManifestCall("p", None, "install", None, "dev") }

\* deps holds the call of each process, data the position and the locals of each
InitRace ==
    /\ pyproject \in RaceManifests
    /\ requirements = NoFile
    /\ data = [proc \in Procs |->
                  [pc |-> "start", content |-> "", original_data |-> "",
                   rolled_back |-> FALSE, raised |-> FALSE]]
    /\ deps \in {pair \in RaceCalls \X RaceCalls : pair[1] # pair[2]}
    /\ calls = <<>>
    /\ ncalls = 0

\* lines 384-392 on the document just parsed: whether the call goes on
CanUpdate(parsed, hatch_env) ==
    /\ parsed.ok
    /\ Truthy(hatch_env) => HasTable(parsed.doc, "tool.hatch.envs")
    /\ HasTable(parsed.doc, "project")

\* lines 380-382: the whole file is read and parsed
ReadManifest(proc) ==
    /\ data[proc].pc = "start"
    /\ \E content \in {ReadText(pyproject.text)} :
         /\ data' = [data EXCEPT ![proc] =
                       IF CanUpdate(Parse(content), deps[proc].hatch_env)
                       THEN [@ EXCEPT !.pc = "parsed", !.content = content]
                       ELSE [@ EXCEPT !.pc = "done", !.content = content, !.raised = TRUE]]
         /\ calls' = Append(calls, [op |-> "read", proc |-> proc, text |-> content])
    /\ UNCHANGED <<pyproject, requirements, deps, ncalls>>

\* line 264: original_data = Path(filename).read_text()
ReadOriginal(proc) ==
    /\ data[proc].pc = "parsed"
    /\ data' = [data EXCEPT ![proc] =
                  [@ EXCEPT !.pc = "captured", !.original_data = ReadText(pyproject.text)]]
    /\ calls' = Append(calls, [op |-> "read_text", proc |-> proc, text |-> ReadText(pyproject.text)])
    /\ UNCHANGED <<pyproject, requirements, deps, ncalls>>

\* line 266: open("w") empties the file
OpenForWriting(proc) ==
    /\ data[proc].pc = "captured"
    /\ pyproject' = [pyproject EXCEPT !.text = ""]
    /\ data' = [data EXCEPT ![proc] = [@ EXCEPT !.pc = "opened"]]
    /\ calls' = Append(calls, [op |-> "open", proc |-> proc, text |-> ""])
    /\ UNCHANGED <<requirements, deps, ncalls>>

\* lines 382 and 409: the document handed to write_pyproject is the one parsed
\* at the start of the call, whatever the file holds by then
DocumentWritten(content, original_data) == Parse(content).doc

\* lines 267-310: the lines are formatted and written, or the text of line 264
WriteOut(proc) ==
    /\ data[proc].pc = "opened"
    /\ \E w \in {write_pyproject(
                    UpdateDocument(DocumentWritten(data[proc].content, data[proc].original_data),
                                   deps[proc].package_name, deps[proc].package_version,
                                   deps[proc].action, deps[proc].hatch_env,
                                   deps[proc].dependency_group),
                    data[proc].original_data, TRUE)} :
         /\ pyproject' = [pyproject EXCEPT !.text = w.text]
         /\ data' = [data EXCEPT ![proc] =
                       [@ EXCEPT !.pc = "done", !.rolled_back = w.raised,
                                 !.raised = w.propagated]]
         /\ calls' = Append(calls, [op |-> "write", proc |-> proc, text |-> w.text])
    /\ UNCHANGED <<requirements, deps, ncalls>>

NextRace ==
    \E proc \in Procs :
        \/ ReadManifest(proc)
        \/ ReadOriginal(proc)
        \/ OpenForWriting(proc)
        \/ WriteOut(proc)

SpecRace == InitRace /\ [][NextRace]_vars

(***************************************************************************)
(* SpecScan: the loop over input_lines in write_pyproject, one line per    *)
(* step, on the renderings of the documents.                               *)
(***************************************************************************)
\* documents with a comment after a table header, an empty group, and an
\* environment with extra-dependencies
AnnotatedDocuments ==
    { <<[Header("project") EXCEPT !.raw = <<"[project] # optional-dependencies are below">>],
        StringItem("project", "name", "x"),
        ArrayItem("project", "dependencies", <<"a==1", "b">>, "wrapped")>>
        \o OptionalTable(<<"a==1">>, "wrapped"),
      ProjectTable(<<"a==1", "b">>, "wrapped-comma", TRUE)
        \o <<Trivia("project", ""), Header("project.optional-dependencies"),
             ArrayItem("project.optional-dependencies", "dev", <<>>, "inline"),
             ArrayItem("project.optional-dependencies", "test", <<"t", "u[x]">>, "wrapped")>>,
      ProjectTable(<<"a[x,y]==1", "b">>, "wrapped", FALSE)
        \o <<Trivia("", ""), Header("tool.hatch.envs.default"),
             ArrayItem("tool.hatch.envs.default", "extra-dependencies", <<"t">>, "wrapped"),
             StringItem("tool.hatch.envs.default", "python", "3.11")>> }

\* deps holds the lines still to be scanned, data the locals of the loop
InitScan ==
    /\ pyproject = NoFile
    /\ requirements = NoFile
    /\ data = ScanStart
    /\ deps \in {SplitLines(Dumps(doc)) : doc \in Documents \cup AnnotatedDocuments}
    /\ calls = <<>>
    /\ ncalls = 0

\* one turn of the loop
ScanNext ==
    /\ Len(deps) > 0
    /\ ~data.err
    /\ data' = ScanLine(data, Head(deps))
    /\ deps' = Tail(deps)
    /\ calls' = <<[op |-> "scan", input_line |-> Head(deps), before |-> data]>>
    /\ UNCHANGED <<pyproject, requirements, ncalls>>

SpecScan == InitScan /\ [][ScanNext]_vars

(***************************************************************************)
(* SpecInstall: modify_pyproject_toml with action install on manifests, one *)
(* of which has a description that holds the word "dependencies".          *)
(***************************************************************************)
InstallManifests ==
    { File("[project]\nname = \"x\"\ndescription = \"keeps dependencies in sync\"\ndependencies = [\n    \"alpha==1.0\"\n]\n"),
      File("[project]\nname = \"x\"\ndependencies = [\n    \"alpha==1.0\",\n    \"beta==2.0\"\n]\n"),
      File("[project]\nname = \"x\"\ndependencies = [\n    \"alpha==1.0\"\n]\n\n[project.optional-dependencies]\ndev = [\n  \"q\"\n]\n"),
      File("[project]\nname = \"x\"\ndependencies = [\n    \"alpha==1.0\"\n]\n\n[tool.hatch.envs.default]\ndependencies = [\n    \"pytest\"\n]\n"),
      NoFile }

InstallCalls ==
    { ManifestCall("gamma", Some("3.0"), "install", None, "dependencies"),
      ManifestCall("alpha", None, "install", None, "dependencies"),
      ManifestCall("beta[x]", None, "install", None, "dependencies"),
      ManifestCall("p", None, "install", None, "dev"),
      ManifestCall("t", Some("2"), "install", Some("default"), "dependencies") }

InitInstall ==
    /\ pyproject \in InstallManifests
    /\ requirements = NoFile
    /\ data = <<>>
    /\ deps = <<>>
    /\ calls = <<>>
    /\ ncalls = 0

SpecInstall == InitInstall /\ [][\E call \in InstallCalls : ModifyPyprojectToml(call)]_vars

(***************************************************************************)
(* SpecUninstall: uninstall_command for one package at a time, with its    *)
(* --hatch-env option, an installer that may fail and a manifest that may  *)
(* be missing.                                                             *)
(***************************************************************************)
UninstallFiles ==
    MirroredFiles
    \cup { [pyproject |-> NoFile, requirements |-> File("alpha==1.0\nbeta==2.0\n")],
           [pyproject |-> File("[project]\nname = \"x\"\n\n[tool.hatch.envs.default]\ndependencies = [\n    \"alpha==1.0\",\n    \"beta==2.0\"\n]\n"),
            requirements |-> File("alpha==1.0\nbeta==2.0\n")] }

UninstallEnvironments == {None, Some("default")}

InitUninstall ==
    /\ \E files \in UninstallFiles :
          /\ pyproject = files.pyproject
          /\ requirements = files.requirements
    /\ data = <<>>
    /\ deps = <<>>
    /\ calls = <<>>
    /\ ncalls = 0

\* the body of the loop of uninstall_command for one package (cli.py 127-151);
\* uninstalled tells whether pip uninstall succeeded (check_call, 130-132)
UninstallPackage(package, hatch_env, uninstalled) ==
    /\ ncalls < MaxCommands
    /\ \E r \in {IF ~uninstalled THEN [raised |-> TRUE, text |-> requirements.text]
                 ELSE modify_requirements(requirements, UninstallName(package), None,
                                          "uninstall")} :
       \E m \in {IF r.raised THEN [raised |-> TRUE, text |-> pyproject.text]
                 ELSE modify_pyproject_toml(pyproject, UninstallName(package), Some(""),
                                            "uninstall", hatch_env, "dependencies")} :
          /\ pyproject' = [pyproject EXCEPT !.text = m.text]
          /\ requirements' = [requirements EXCEPT !.text = r.text]
          /\ calls' = Remember([op |-> "uninstall_command", package |-> package,
                                hatch_env |-> hatch_env, uninstalled |-> uninstalled,
                                before |-> Files, raised |-> m.raised])
    /\ ncalls' = ncalls + 1
    /\ UNCHANGED <<data, deps>>

NextUninstall ==
    \E package \in UninstallPackages, hatch_env \in UninstallEnvironments,
       uninstalled \in BOOLEAN :
        UninstallPackage(package, hatch_env, uninstalled)

SpecUninstall == InitUninstall /\ [][NextUninstall]_vars

(***************************************************************************)
(* Properties of the serializer.                                           *)
(***************************************************************************)
Wrote == calls # <<>> /\ LastCall.op = "write_pyproject" /\ ~LastCall.raised

RolledBack ==
    calls # <<>> /\ LastCall.op = "write_pyproject" /\ LastCall.raised
    /\ ~LastCall.propagated

\* the lines of the file as written
WrittenLines == SplitLines(pyproject.text)

\* lines[k..] holds the array laid out one specifier per line: the opening
\* "key = [", each specifier indented two spaces with a comma after all but
\* the last, the closing "]"
LaidOutAt(lines, k, item) ==
    LET n == Len(item.value) IN
    /\ k + n + 1 <= Len(lines)
    /\ Strip(lines[k]) = item.key \o " = ["
    /\ \A i \in 1..n :
          lines[k + i] = "  " \o Quote(item.value[i]) \o (IF i < n THEN "," ELSE "")
    /\ Strip(lines[k + n + 1]) = "]"

DependencyArrays(doc) ==
    {i \in 1..Len(doc) : IsDependencyArray(doc[i]) /\ Len(doc[i].value) >= 1}

\* C1: every dependency-bearing array of the document is written as the
\* opening "name = [" line, one line per specifier (two spaces, a comma after
\* all but the last, the document's specifiers in order) and the closing "]".
C1_OneSpecifierPerLine ==
    Wrote =>
        \A i \in DependencyArrays(data) :
            \E k \in 1..Len(WrittenLines) : LaidOutAt(WrittenLines, k, data[i])

RECURSIVE IsSubsequence(_, _)
IsSubsequence(a, b) ==
    IF Len(a) = 0 THEN TRUE
    ELSE IF Len(b) = 0 THEN FALSE
    ELSE IF Head(a) = Head(b) THEN IsSubsequence(Tail(a), Tail(b))
    ELSE IsSubsequence(a, Tail(b))

\* the lines of the generic rendering that belong to no dependency array
PassThroughLines(doc) ==
    RawLines(SelectSeq(doc, LAMBDA item : ~IsDependencyArray(item)))

\* C2: after a successful write, every line of the generic rendering outside
\* the dependency arrays is in the file, unchanged and in the same order.
C2_OtherLinesVerbatim == Wrote => IsSubsequence(PassThroughLines(data), WrittenLines)

\* C3: when formatting or writing raised, the file holds what it held before
\* the call.
C3_RollbackRestoresFile == RolledBack => pyproject.text = LastCall.before.text

(***************************************************************************)
(* Properties of the list editor.                                          *)
(***************************************************************************)
Count(seq, x) == Cardinality({i \in 1..Len(seq) : seq[i] = x})

Members(seq) == {seq[i] : i \in 1..Len(seq)}

HasBaseName(seq, s) == \E d \in Members(seq) : base_name(d) = base_name(s)

UniqueBaseNames(seq) ==
    \A i, j \in 1..Len(seq) : i # j => base_name(seq[i]) # base_name(seq[j])

IsSortedLower(seq) ==
    \A i \in 1..(Len(seq) - 1) : ~StrLess(Lower(seq[i + 1]), Lower(seq[i]))

AllTrimmed(seq) == \A d \in Members(seq) : Strip(d) = d

Updated == calls # <<>> /\ LastCall.op = "modify_dependencies"

\* C4: the result of update(C, s, a) holds no old entry with the base name of
\* s, holds every other entry of C, and holds s trimmed exactly once after an
\* install and not at all after an uninstall.
C4_UpdateContents ==
    Updated =>
        LET c == LastCall
            s == c.package_version_str
        IN /\ \A d \in Members(c.dependencies) :
                (base_name(d) = base_name(s) /\ d \in Members(c.result))
                    => (c.action = "install" /\ d = Strip(s))
           /\ \A d \in Members(c.dependencies) :
                base_name(d) # base_name(s) => Strip(d) \in Members(c.result)
           /\ Count(c.result, Strip(s)) = (IF c.action = "install" THEN 1 ELSE 0)

\* C5: starting from a collection with pairwise distinct base names, no
\* sequence of updates yields two entries with the same base name.
C5_UniqueBaseNames == UniqueBaseNames(deps)

\* C6: after any update the collection is sorted ascending by the lower-cased
\* full specifier string.
C6_SortedAfterUpdate == Updated => IsSortedLower(deps)

\* an uninstall that matched nothing, applied to a list that was not sorted
C6_Witness ==
    /\ Updated
    /\ LastCall.action = "uninstall"
    /\ ~HasBaseName(LastCall.dependencies, LastCall.package_version_str)
    /\ ~IsSortedLower(LastCall.dependencies)
    /\ Len(deps) >= 2

InstallThenUninstall ==
    /\ Len(calls) = 2
    /\ calls[1].op = "modify_dependencies" /\ calls[2].op = "modify_dependencies"
    /\ calls[1].action = "install" /\ calls[2].action = "uninstall"
    /\ calls[1].package_version_str = calls[2].package_version_str
    /\ calls[2].dependencies = calls[1].result
    /\ UniqueBaseNames(calls[1].dependencies)

\* C7: installing s and then uninstalling s removes the entries with the base
\* name of s and leaves the rest of update(C, s, install) as it was, in order.
C7_InstallUninstall ==
    InstallThenUninstall =>
        calls[2].result =
            SelectSeq(calls[1].result,
                      LAMBDA d : base_name(d) # base_name(calls[2].package_version_str))

\* install then uninstall of a specifier with extras and a pin, next to two
\* other entries that stay
C7_Witness ==
    /\ InstallThenUninstall
    /\ HasBaseName(calls[1].result, calls[2].package_version_str)
    /\ Len(calls[2].result) = Len(calls[1].result) - 1
    /\ Len(calls[2].result) >= 2

UninstalledAbsent ==
    /\ Updated
    /\ LastCall.action = "uninstall"
    /\ ~HasBaseName(LastCall.dependencies, LastCall.package_version_str)

\* C8 as stated: an uninstall of a package that has no entry returns the
\* collection unchanged, entries and order.
C8_UninstallAbsentUnchanged == UninstalledAbsent => LastCall.result = LastCall.dependencies

\* C8 amended: an uninstall of a package that has no entry returns the entries
\* of C, each trimmed, sorted case-insensitively; C itself when C is already
\* sorted case-insensitively and its entries carry no surrounding whitespace.
C8_UninstallAbsentResorted ==
    UninstalledAbsent =>
        LET C == LastCall.dependencies
            R == LastCall.result
        IN /\ Len(R) = Len(C)
           /\ \A d \in Members(C) :
                Count(R, Strip(d)) =
                    Cardinality({i \in 1..Len(C) : Strip(C[i]) = Strip(d)})
           /\ IsSortedLower(R)
           /\ (IsSortedLower(C) /\ AllTrimmed(C)) => R = C

\* an uninstall that matched nothing in a sorted, trimmed list of two entries
C8_Witness ==
    /\ UninstalledAbsent
    /\ Len(LastCall.dependencies) >= 2
    /\ IsSortedLower(LastCall.dependencies)
    /\ AllTrimmed(LastCall.dependencies)
    /\ LastCall.result = LastCall.dependencies

(***************************************************************************)
(* Properties of the manifest update.                                      *)
(***************************************************************************)
\* the parsed value of every field of a document, by table and key
FieldValues(doc) ==
    {<<doc[i].table, doc[i].key, doc[i].kind, doc[i].value>> :
        i \in {j \in 1..Len(doc) : IsValueItem(doc[j])}}

IsMainField(field) == field[1] = "project" /\ field[2] = "dependencies"

OtherFields(doc) == {field \in FieldValues(doc) : ~IsMainField(field)}

\* a call of modify_pyproject_toml on the main collection that returned
UpdatedMain ==
    /\ calls # <<>>
    /\ LastCall.op = "modify_pyproject_toml"
    /\ ~LastCall.raised
    /\ LastCall.call.dependency_group = "dependencies"
    /\ LastCall.call.hatch_env = None

ManifestBefore == Parse(ReadText(LastCall.before.pyproject.text)).doc

ExpectedMain ==
    LET call == LastCall.call
        p == call.package_name \o
                 (IF Truthy(call.package_version) THEN "==" \o call.package_version[1] ELSE "")
        prior == Members(GetArray(ManifestBefore, "project", "dependencies"))
    IN {d \in prior : base_name(d) # base_name(p)}
           \cup (IF call.action = "install" THEN {p} ELSE {})

\* C10: an update of the main collection leaves project.dependencies as the
\* prior collection without the package's entry (plus its specifier on
\* install), and the parsed value of every other field of the manifest as it
\* was
C10_OtherSectionsUnchanged ==
    UpdatedMain =>
        /\ Parse(ReadText(pyproject.text)).ok
        /\ Members(GetArray(Parse(ReadText(pyproject.text)).doc, "project", "dependencies"))
               = ExpectedMain
        /\ OtherFields(Parse(ReadText(pyproject.text)).doc) = OtherFields(ManifestBefore)

(***************************************************************************)
(* Properties of the requirements file.                                    *)
(***************************************************************************)
\* a call of modify_requirements that installed a name without a version pin
InstalledRequirement ==
    /\ calls # <<>>
    /\ LastCall.op = "modify_requirements"
    /\ ~LastCall.raised
    /\ LastCall.call.action = "install"
    /\ ~Contains(LastCall.call.package_name, "==")

NewSpecifier(call) ==
    call.package_name \o
        (IF call.package_version # None THEN "==" \o call.package_version[1] ELSE "")

LinesNamed(text, name) ==
    LET lines == get_requirements_packages(text) IN
    {i \in 1..Len(lines) : base_name(lines[i]) = base_name(name)}

\* C11: after modify_requirements(n, v, install) the file holds exactly one
\* line with n's base name, and that line is the new specifier
C11_OneLinePerName ==
    InstalledRequirement =>
        LET lines == get_requirements_packages(requirements.text)
            named == LinesNamed(requirements.text, LastCall.call.package_name)
        IN /\ Cardinality(named) = 1
           /\ \A i \in named : lines[i] = NewSpecifier(LastCall.call)

(***************************************************************************)
(* Properties of the error handling.                                       *)
(***************************************************************************)
\* a call of modify_pyproject_toml that names an environment the manifest,
\* which parses, does not hold
UnknownEnvironment ==
    /\ calls # <<>>
    /\ LastCall.op = "modify_pyproject_toml"
    /\ Truthy(LastCall.call.hatch_env)
    /\ LastCall.before.pyproject.exists
    /\ Parse(ReadText(LastCall.before.pyproject.text)).ok
    /\ ~HasTable(ManifestBefore, EnvTableName(LastCall.call.hatch_env))

\* C12: modify_pyproject_toml with an environment that the manifest does not
\* hold raises to the caller and leaves the manifest file unchanged
C12_UnknownEnvironmentRaises ==
    UnknownEnvironment =>
        /\ LastCall.raised
        /\ pyproject = LastCall.before.pyproject

\* a call of write_pyproject in which the try block raised
WriteFailed ==
    /\ calls # <<>>
    /\ LastCall.op = "write_pyproject"
    /\ LastCall.before.exists
    /\ LastCall.raised

\* a call of write_pyproject in which the re-layout of the arrays raised
FormattingFailed == WriteFailed /\ LastCall.exception \in {"ValueError", "IndexError"}

\* C13: a failure inside the formatting and writing step of write_pyproject
\* never reaches the caller
C13_WriteFailureMasked == WriteFailed => ~LastCall.propagated

\* C13, as the code has it: a failure of the re-layout never reaches the
\* caller, and a file that cannot be opened for writing makes the except
\* clause raise to the caller, the file unchanged
C13_FormattingFailureMasked ==
    /\ FormattingFailed => ~LastCall.propagated
    /\ (WriteFailed /\ LastCall.exception = "PermissionError") =>
           (LastCall.propagated /\ pyproject = LastCall.before)

C13_Witness == FormattingFailed /\ LastCall.exception = "IndexError" /\ ~LastCall.propagated

(***************************************************************************)
(* Properties of the commands.                                             *)
(***************************************************************************)
\* the specifiers of requirements.txt and of project.dependencies are the same
Mirrored ==
    /\ Parse(ReadText(pyproject.text)).ok
    /\ Members(get_requirements_packages(ReadText(requirements.text)))
           = Members(GetArray(Parse(ReadText(pyproject.text)).doc, "project", "dependencies"))

CommandsSucceeded ==
    /\ calls # <<>>
    /\ Len(calls) = ncalls
    /\ \A i \in 1..Len(calls) :
          calls[i].op \in {"install_command", "uninstall_command"} /\ ~calls[i].raised

\* C14: starting from files that hold the same specifiers, after any sequence
\* of successful install and uninstall commands on the main collection
\* requirements.txt and project.dependencies hold the same specifiers again
C14_RequirementsMirror == CommandsSucceeded => Mirrored

(***************************************************************************)
(* Properties of the base name.                                            *)
(***************************************************************************)
\* C15: every call site derives base_name(s) for a specifier s and decides
\* "same package" by equality of base names
C15_SameRuleEverywhere ==
    (calls # <<>> /\ LastCall.op = "compare") =>
        /\ LastCall.name = base_name(LastCall.package)
        /\ LastCall.same = (base_name(LastCall.package) = base_name(LastCall.entry))

\* the position of the first "[" or "==" of s; 0 when s has neither
FirstMark(s) ==
    LET marks == {k \in 1..Len(s) :
                     Char(s, k) = "[" \/ (k < Len(s) /\ SubSeq(s, k, k + 1) = "==")}
    IN IF marks = {} THEN 0 ELSE CHOOSE k \in marks : \A j \in marks : k <= j

\* C16: base_name(s) is the prefix of s before the first "[" or "==", and s
\* itself when s has neither
C16_BaseNameIsPrefix ==
    (calls # <<>> /\ LastCall.op = "base_name") =>
        LET s == LastCall.package_name IN
        LastCall.result = IF FirstMark(s) = 0 THEN s ELSE SubSeq(s, 1, FirstMark(s) - 1)

C16_Witness ==
    /\ calls # <<>>
    /\ LastCall.op = "base_name"
    /\ LastCall.package_name = "pkg[extra]==1.0"
    /\ LastCall.result = "pkg"

(***************************************************************************)
(* Properties of the reflow.                                               *)
(***************************************************************************)
Reflowed == calls # <<>> /\ LastCall.op = "process_dependencies"

\* the lines that the call appended to output_lines
Emitted == SubSeq(LastCall.result, Len(LastCall.output_lines) + 1, Len(LastCall.result))

EndsArray(line) == EndsWith(line, "]") /\ ~Contains(line, "[")

\* C17: a line of entries without extras that ends with "]" is emitted as one
\* line per entry, trimmed and indented two spaces, with a comma after every
\* entry but the last, and then a line "  ]"
C17_PlainReflow ==
    (Reflowed /\ EndsArray(LastCall.line)) =>
        LET entries == data.entries
            n == Len(entries)
        IN /\ ~LastCall.raised
           /\ Emitted = [k \in 1..(n + 1) |->
                            IF k = n + 1 THEN "  ]"
                            ELSE "  " \o Strip(entries[k]) \o (IF k < n THEN "," ELSE "")]

\* C18: an entry whose extras span several fragments is emitted as one line,
\* its fragments joined by commas in their order, with a comma after it; the
\* other lines are not fragments of it
C18_ExtrasRejoined ==
    (Reflowed /\ ~EndsArray(LastCall.line)) =>
        /\ ~LastCall.raised
        /\ \A k \in 1..Len(data.entries) :
              Spanning(data.entries[k]) =>
                  Count(Emitted, "  " \o Strip(data.entries[k]) \o ",")
                      = Count(data.entries, data.entries[k])
        /\ LastCall.line # "dep1[extra1,extra2], dep2[extra3], dep3" =>
              Len(Emitted) = Len(data.entries)
        /\ LastCall.line = "dep1[extra1,extra2], dep2[extra3], dep3" =>
              Emitted = <<"  dep1[extra1,extra2],", "  dep2[extra3", "  ]", "  dep3">>

C18_Witness ==
    /\ Reflowed
    /\ LastCall.line = "dep1[extra1,extra2], dep2[extra3], dep3"
    /\ Emitted = <<"  dep1[extra1,extra2],", "  dep2[extra3", "  ]", "  dep3">>

(***************************************************************************)
(* Properties of the optional groups.                                      *)
(***************************************************************************)
OptionalGroups(doc) ==
    {i \in 1..Len(doc) :
        IsValueItem(doc[i]) /\ doc[i].table = "project.optional-dependencies"}

\* every package of a group other than "all" has an entry in "all"
AllCoversGroups(doc) ==
    \A i \in OptionalGroups(doc) :
        doc[i].key # "all" =>
            \A k \in 1..Len(doc[i].value) :
                HasBaseName(GetArray(doc, "project.optional-dependencies", "all"),
                            base_name(doc[i].value[k]))

UpdatedGroup ==
    /\ calls # <<>>
    /\ LastCall.op = "modify_pyproject_toml"
    /\ ~LastCall.raised
    /\ LastCall.call.dependency_group # "dependencies"

\* C19: after an install or uninstall on a named optional group, the group
\* "all" of the written manifest holds an entry for every package of the
\* other groups
C19_AllIncludesGroups ==
    UpdatedGroup =>
        /\ Parse(ReadText(pyproject.text)).ok
        /\ AllCoversGroups(Parse(ReadText(pyproject.text)).doc)

(***************************************************************************)
(* Properties of the queries.                                              *)
(***************************************************************************)
\* C20: is_package_in_requirements(p) is True exactly when a line of
\* requirements.txt holds a specifier with the base name of p
C20_FoundByBaseName ==
    (calls # <<>> /\ LastCall.op = "is_package_in_requirements" /\ ~LastCall.raised) =>
        LastCall.result =
            HasBaseName(get_requirements_packages(ReadText(requirements.text)),
                        LastCall.package_name)

(***************************************************************************)
(* Properties of the manifest query.                                       *)
(***************************************************************************)
Asked == calls # <<>> /\ LastCall.op = "is_package_in_pyproject"

\* the collection the query is about: project.dependencies without an
\* environment, the environment's dependencies with one
TargetCollection ==
    GetArray(Parse(ReadText(pyproject.text)).doc,
             IF Truthy(LastCall.hatch_env) THEN EnvTableName(LastCall.hatch_env) ELSE "project",
             "dependencies")

\* C21: is_package_in_pyproject(p, env) is True exactly when the targeted
\* collection holds a specifier of the package p, and a name that is only a
\* part of a listed specifier is not reported
C21_ListedExactly ==
    (Asked /\ ~LastCall.raised) =>
        LastCall.result = HasBaseName(TargetCollection, LastCall.package_name)

(***************************************************************************)
(* Properties of two concurrent calls.                                     *)
(***************************************************************************)
Other(proc) == 3 - proc

EventAt(op, proc) == {i \in 1..Len(calls) : calls[i].op = op /\ calls[i].proc = proc}

\* the other process wrote the file between the read and the write of proc
WroteBetween(proc) ==
    \E i \in EventAt("read", proc), j \in EventAt("write", Other(proc)),
       k \in EventAt("write", proc) : i < j /\ j < k

\* whether the collection the call names holds the package of the call
ListedIn(text, call) ==
    HasBaseName(GetArray(Parse(text).doc,
                         IF call.dependency_group # "dependencies"
                         THEN "project.optional-dependencies" ELSE "project",
                         call.dependency_group),
                call.package_name)

\* the package of the other process is listed as it was when proc read the
\* file, and no call raised
ChangeLost(proc) ==
    /\ ListedIn(pyproject.text, deps[Other(proc)])
           = ListedIn(data[proc].content, deps[Other(proc)])
    /\ \A each \in Procs : ~data[each].raised

\* C22: when the second process writes between the first process's read and
\* the first process's write, the file ends without the change of the second
\* process, and no call reports a conflict
C22_LastWriterWins ==
    \A proc \in Procs : WroteBetween(proc) => ChangeLost(proc)

(***************************************************************************)
(* Properties of the line scan.                                            *)
(***************************************************************************)
Scanned == calls # <<>> /\ LastCall.op = "scan"

ScannedLine == RStrip(LastCall.input_line)

\* the text from the first "[" of the line up to the next "]"; "" without one
Bracketed(line) ==
    LET open == FindFrom(line, "[", 1)
        close == IF open = 0 THEN 0 ELSE FindFrom(line, "]", open + 1)
    IN IF close = 0 THEN "" ELSE SubSeq(line, open, close)

\* [something], with no quoted text between the brackets
HasBracketSyntax(line) == Bracketed(line) # "" /\ ~Contains(Bracketed(line), "\"")

NamesOptionalTable(line) == Contains(Bracketed(line), "optional-dependencies")

\* C23: a line with [something] syntax and no quoted text between the brackets
\* resets both flags and is emitted verbatim, and inside_optional_dependencies
\* is then set exactly when the line names an optional-dependencies table
C23_HeaderResetsFlags ==
    (Scanned /\ HasBracketSyntax(ScannedLine)) =>
        /\ ~data.err
        /\ ~data.inside_dependencies
        /\ data.inside_optional_dependencies = NamesOptionalTable(ScannedLine)
        /\ data.output_lines = Append(LastCall.before.output_lines, ScannedLine)

\* the per-item reflow routine applied by a rule: the locals after it
Reflow(st, text, output_lines, inside) ==
    With(process_dependencies(text, output_lines),
         LAMBDA r :
             IF r.err THEN [st EXCEPT !.inside_dependencies = inside, !.err = TRUE,
                                      !.exception = "IndexError"]
             ELSE [st EXCEPT !.inside_dependencies = inside,
                             !.output_lines = r.output_lines])

\* one line under the rules taken in priority order, the first that applies
\* deciding: table header, dependency array opening, optional block reflow,
\* array close, and by default reflow inside an array, passthrough outside
InPriorityOrder(st, input_line) ==
    LET line == RStrip(input_line)
        open == FindFrom(line, "[", 1)
    IN IF is_group(line) THEN
           [st EXCEPT !.inside_dependencies = FALSE,
                      !.inside_optional_dependencies = Contains(line, "optional-dependencies"),
                      !.output_lines = Append(@, line)]
       ELSE IF OpensArray(line, st.inside_optional_dependencies) THEN
           IF open = 0 THEN [st EXCEPT !.inside_dependencies = TRUE, !.err = TRUE,
                                       !.exception = "ValueError"]
           ELSE Reflow(st, From(line, open + 1),
                       Append(st.output_lines, SubSeq(line, 1, open)), TRUE)
       ELSE IF st.inside_optional_dependencies THEN
           Reflow(st, line, st.output_lines, st.inside_dependencies)
       ELSE IF st.inside_dependencies /\ Contains(line, "]") /\ ~Contains(line, "[") THEN
           [st EXCEPT !.inside_dependencies = FALSE, !.output_lines = Append(@, line)]
       ELSE IF st.inside_dependencies THEN
           Reflow(st, line, st.output_lines, TRUE)
       ELSE [st EXCEPT !.output_lines = Append(@, line)]

\* C24: after every line, the emitted lines and the flags are those of a
\* scanner that takes the rules in the order table header, dependency array
\* opening, optional block reflow, array close, default passthrough
C24_PriorityOrder ==
    Scanned => data = InPriorityOrder(LastCall.before, LastCall.input_line)

\* a "]" line met inside a dependency array, where the close rule and the
\* default reflow both apply: the array is closed and the line passed through
C24_Witness ==
    /\ Scanned
    /\ LastCall.before.inside_dependencies
    /\ ~LastCall.before.inside_optional_dependencies
    /\ ScannedLine = "]"
    /\ ~data.inside_dependencies
    /\ data.output_lines = Append(LastCall.before.output_lines, "]")

(***************************************************************************)
(* Properties of a normal return.                                          *)
(***************************************************************************)
ReturnedFromInstall ==
    /\ calls # <<>>
    /\ LastCall.op = "modify_pyproject_toml"
    /\ LastCall.call.action = "install"
    /\ ~LastCall.raised

\* the collection the call is about, as the file on disk holds it
TargetedCollection(call) ==
    LET doc == Parse(ReadText(pyproject.text)).doc IN
    IF Truthy(call.hatch_env) /\ HasTable(doc, "tool.hatch")
    THEN GetArray(doc, EnvTableName(call.hatch_env), "dependencies")
    ELSE IF call.dependency_group # "dependencies"
    THEN GetArray(doc, "project.optional-dependencies", call.dependency_group)
    ELSE GetArray(doc, "project", "dependencies")

\* C25: when modify_pyproject_toml(p, v, install) returns normally, the
\* manifest on disk lists p's specifier in the targeted collection
C25_NormalReturnMeansWritten ==
    ReturnedFromInstall =>
        NewSpecifier(LastCall.call) \in Members(TargetedCollection(LastCall.call))

\* the line just scanned holds the closing bracket of a dependency array: the
\* array opens and closes on it, or it is the "]" line of an open array
ConsumedClosingBracket ==
    /\ Scanned
    /\ ~data.err
    /\ EndsWith(ScannedLine, "]")
    /\ \/ OpensArray(ScannedLine, LastCall.before.inside_optional_dependencies)
       \/ LastCall.before.inside_dependencies /\ Strip(ScannedLine) = "]"

\* C26: once the closing bracket of a dependency array has been consumed, on
\* its own line or on the line of the opening bracket, inside_dependencies is
\* false
C26_FlagFalseAfterClose ==
    ConsumedClosingBracket => ~data.inside_dependencies

(***************************************************************************)
(* Properties of the uninstall command.                                    *)
(***************************************************************************)
UninstallEnded == calls # <<>> /\ LastCall.op = "uninstall_command"

\* neither file lists the package any more
RemovedFromBoth ==
    LET doc == Parse(ReadText(pyproject.text))
        table == IF Truthy(LastCall.hatch_env) THEN EnvTableName(LastCall.hatch_env)
                 ELSE "project"
    IN /\ pyproject.exists /\ doc.ok
       /\ ~HasBaseName(GetArray(doc.doc, table, "dependencies"), UninstallName(LastCall.package))
       /\ requirements.exists
       /\ ~HasBaseName(get_requirements_packages(ReadText(requirements.text)),
                       UninstallName(LastCall.package))

NeitherModified == Files = LastCall.before

\* C27: when uninstall_command ends for a package, by success or by failure,
\* both files have lost the package's entry or neither file was modified
C27_UninstallAsUnit ==
    UninstallEnded => (RemovedFromBoth \/ NeitherModified)

====
